---- MODULE Spec2Model ----
(***************************************************************************)
(* Control flow of experiments/cli.py: main (the learning-setting          *)
(* dispatcher) and trainer (the experiment driver).  The collaborators     *)
(* (load_dataset, FewShotSampler, load_plm, runners, ...) are calls whose  *)
(* occurrence and arguments are recorded; their return values are drawn    *)
(* from small sets.                                                        *)
(***************************************************************************)
EXTENDS Integers, Sequences, FiniteSets, TLC

VARIABLES
    args,          \* parsed command line: --resume and --test
    config,        \* the loaded configuration
    pc,            \* position of main
    EXP_PATH,      \* main's EXP_PATH
    logging_path,  \* config.logging.path
    datasets,      \* train/valid/test as returned by load_dataset
    res,           \* main's res
    seedIdx,       \* number of seeds the few-shot loop has finished
    error,         \* the exception that terminated main, if any
    printed,       \* the metric written by print("metric:", res)
    trace,         \* names of the collaborator calls made, in order
    files,         \* paths of the files written by save_config_to_yaml
    loadCalls,     \* arguments of the load_dataset calls
    samplerCalls,  \* arguments of the few-shot sampler calls
    trainerCalls,  \* arguments of the trainer invocations
    loaderCalls,   \* arguments of the build_dataloader calls
    runnerCalls,   \* runner methods called, with their results
    trainerReturns,\* values returned by the trainer invocations
    tr             \* frame of the active trainer invocation

vars == <<args, config, pc, EXP_PATH, logging_path, datasets, res, seedIdx,
          error, printed, trace, files, loadCalls, samplerCalls, trainerCalls,
          loaderCalls, runnerCalls, trainerReturns, tr>>

(* ---------------------------- bounds ----------------------------------- *)
MaxSeeds == 2

(* ------------------------ values and helpers --------------------------- *)
\* Python's None
NONE == "None"

\* Python truthiness of the values the code tests with `if x` / `and` / `or`:
\* None, the empty string and the empty list are false.
Truthy(x) == x \notin {NONE, "", "[]"}

\* Python's `a or b`
PyOr(a, b) == IF Truthy(a) THEN a ELSE b

\* os.path.join(a, b) for a relative b
PathJoin(a, b) == IF a = "" THEN b ELSE a \o "/" \o b

\* f"seed-{seed}"
SeedDir(seed) == "seed-" \o ToString(seed)

\* values an argparse string option can hold: absent, empty, a path
ArgValues == {NONE, "", "logs/run"}

LearningSettings == {"full", "few_shot", "zero_shot", "one_shot"}
Tasks == {"classification", "generation", "tagging"}
SeedValues == {1, 2}
Metrics == {70, 80}

\* config.sampling_from_train.seed: a list of seeds
SeedLists == UNION {[1..n -> SeedValues] : n \in 0..MaxSeeds}

\* what load_dataset may return for a split: absent, an empty list or the
\* split's examples
SplitValues(split) == {NONE, "[]", split}

\* A local variable that has not been assigned yet
Unbound == <<>>

\* Metrics are numbers; a number is kept as <<numerator, denominator>> so that
\* the true division of line 122 is exact.
Num(m) == <<m, 1>>
NumAdd(a, b) == <<a[1] * b[2] + b[1] * a[2], a[2] * b[2]>>
NumDiv(a, n) == <<a[1], a[2] * n>>

\* the trainer frame when no trainer invocation is active
NoFrame == [pc |-> "idle", locals |-> {}, runner |-> NONE, res |-> Unbound]

(* ------------------------------ Init ----------------------------------- *)
\* get_config(): the parsed flags and the loaded configuration
Init ==
    /\ args \in [resume : ArgValues, test : ArgValues]
    /\ config \in [learning_setting : LearningSettings,
                   task : Tasks,
                   auto_t : BOOLEAN,
                   auto_v : BOOLEAN,
                   few_shot_sampling : {NONE, "sampling_from_train"},
                   seed : SeedLists]
    /\ pc = "check_flags"
    /\ EXP_PATH = NONE
    /\ logging_path = "logs"
    /\ datasets = [train |-> NONE, valid |-> NONE, test |-> NONE]
    /\ res = Unbound
    /\ seedIdx = 0
    /\ error = NONE
    /\ printed = Unbound
    /\ trace = <<>>
    /\ files = {}
    /\ loadCalls = <<>>
    /\ samplerCalls = <<>>
    /\ trainerCalls = <<>>
    /\ loaderCalls = <<>>
    /\ runnerCalls = <<>>
    /\ trainerReturns = <<>>
    /\ tr = NoFrame

(* ------------------------------ main ----------------------------------- *)
\* the conflict test with the second operand negated
FlagsConflictNegated(a) == Truthy(a.resume) /\ ~Truthy(a.test)

\* line 61: the two flags are used together
FlagsConflict(a) == Truthy(a.resume) /\ Truthy(a.test)

\* a fresh-run test that looks at --resume only
FreshRunIgnoresTest(a) == ~Truthy(a.resume)

\* line 63 (negated): neither flag selects an existing experiment directory
FreshRun(a) == ~(Truthy(a.resume) \/ Truthy(a.test))

\* lines 50-55: the file save_config_to_yaml writes
save_config_to_yaml(path) == PathJoin(path, "config.yaml")

\* line 72: the test argument of load_dataset
LoadTestFlag(a, cfg) == a.test # NONE \/ cfg.learning_setting = "zero_shot"

\* a sampling check that looks at the seed list instead
SamplingMissingChecksSeeds(cfg) == cfg.seed = <<>>

\* line 87
SamplingMissing(cfg) == cfg.few_shot_sampling = NONE

\* the 'full' trainer call without test = args.test
FullArgsWithoutTest(exp, a, ds) ==
    [EXP_PATH |-> exp, resume |-> a.resume, test |-> NONE, zero |-> FALSE,
     train_dataset |-> ds.train, valid_dataset |-> ds.valid,
     test_dataset |-> ds.test]

\* the 'full' trainer call with the valid and test datasets exchanged
FullArgsSwapped(exp, a, ds) ==
    [EXP_PATH |-> exp, resume |-> a.resume, test |-> a.test, zero |-> FALSE,
     train_dataset |-> ds.train, valid_dataset |-> ds.test,
     test_dataset |-> ds.valid]

\* lines 76-85: the arguments of the 'full' trainer call
FullArgs(exp, a, ds) ==
    [EXP_PATH |-> exp, resume |-> a.resume, test |-> a.test, zero |-> FALSE,
     train_dataset |-> ds.train, valid_dataset |-> ds.valid,
     test_dataset |-> ds.test]

\* lines 103-112: the few-shot trainer call on the sampled datasets
FewShotArgs(exp, a, seed, sampled, ds) ==
    [EXP_PATH |-> PathJoin(exp, SeedDir(seed)), resume |-> a.resume,
     test |-> a.test, zero |-> FALSE,
     train_dataset |-> sampled.train, valid_dataset |-> sampled.valid,
     test_dataset |-> ds.test]

\* lines 114-120: the few-shot trainer call under --test
FewShotTestArgs(exp, a, seed, ds) ==
    [EXP_PATH |-> PathJoin(exp, SeedDir(seed)), resume |-> NONE,
     test |-> a.test, zero |-> FALSE,
     train_dataset |-> NONE, valid_dataset |-> NONE,
     test_dataset |-> ds.test]

\* lines 124-132: the zero-shot trainer call
ZeroShotArgs(exp, ds) ==
    [EXP_PATH |-> exp, resume |-> NONE, test |-> NONE, zero |-> TRUE,
     train_dataset |-> ds.train, valid_dataset |-> ds.valid,
     test_dataset |-> ds.test]

\* lines 93-102: the validation set the sampler may return; it is always a
\* sample when a validation set was passed in
SampledValid(valid) ==
    IF Truthy(valid) THEN {"valid-sample"} ELSE {NONE, "valid-sample"}

\* line 135: entering trainer with the given arguments
Invoke(call) ==
    /\ trainerCalls' = Append(trainerCalls, call)
    /\ tr' = [pc |-> "assemble", locals |-> {}, runner |-> NONE,
              res |-> Unbound]

\* lines 61-62
CheckFlags ==
    /\ pc = "check_flags"
    /\ IF FlagsConflict(args)
       THEN /\ pc' = "failed"
            /\ error' = "Exception"
       ELSE /\ pc' = "setup"
            /\ error' = error
    /\ UNCHANGED <<args, config, EXP_PATH, logging_path, datasets, res,
                   seedIdx, printed, trace, files, loadCalls, samplerCalls,
                   trainerCalls, loaderCalls, runnerCalls, trainerReturns, tr>>

\* lines 63-69
SetupExperiment ==
    /\ pc = "setup"
    /\ IF FreshRun(args)
       THEN \* config_experiment_dir creates the directory under the
            \* configured logging path and stores it in config.logging.path
            /\ EXP_PATH' = PathJoin(logging_path, "exp")
            /\ logging_path' = PathJoin(logging_path, "exp")
            /\ trace' = trace \o <<"config_experiment_dir", "init_logger",
                                   "save_config_to_yaml">>
            /\ files' = files \cup {save_config_to_yaml(logging_path')}
       ELSE /\ EXP_PATH' = PyOr(args.resume, args.test)
            /\ logging_path' = PyOr(args.resume, args.test)
            /\ trace' = trace
            /\ files' = files
    /\ pc' = "load"
    /\ UNCHANGED <<args, config, datasets, res, seedIdx, error, printed,
                   loadCalls, samplerCalls, trainerCalls, loaderCalls,
                   runnerCalls, trainerReturns, tr>>

\* line 72
LoadDataset ==
    /\ pc = "load"
    /\ loadCalls' = Append(loadCalls, [test |-> LoadTestFlag(args, config)])
    /\ \E t \in SplitValues("train"), v \in SplitValues("valid"),
          s \in SplitValues("test") :
          datasets' = [train |-> t, valid |-> v, test |-> s]
    /\ trace' = Append(trace, "load_dataset")
    /\ pc' = "dispatch"
    /\ UNCHANGED <<args, config, EXP_PATH, logging_path, res, seedIdx, error,
                   printed, files, samplerCalls, trainerCalls, loaderCalls,
                   runnerCalls, trainerReturns, tr>>

\* lines 75-85: the 'full' branch calls trainer
DispatchFull ==
    /\ pc = "dispatch"
    /\ config.learning_setting = "full"
    /\ Invoke(FullArgs(EXP_PATH, args, datasets))
    /\ trace' = Append(trace, "trainer")
    /\ pc' = "full_call"
    /\ UNCHANGED <<args, config, EXP_PATH, logging_path, datasets, res,
                   seedIdx, error, printed, files, loadCalls, samplerCalls,
                   loaderCalls, runnerCalls, trainerReturns>>

\* line 76: res = trainer(...)
ReturnFull ==
    /\ pc = "full_call"
    /\ tr.pc = "returned"
    /\ res' = tr.res
    /\ tr' = NoFrame
    /\ pc' = "print"
    /\ UNCHANGED <<args, config, EXP_PATH, logging_path, datasets, seedIdx,
                   error, printed, trace, files, loadCalls, samplerCalls,
                   trainerCalls, loaderCalls, runnerCalls, trainerReturns>>

\* lines 86-90: entering the 'few_shot' branch
DispatchFewShot ==
    /\ pc = "dispatch"
    /\ config.learning_setting = "few_shot"
    /\ IF SamplingMissing(config)
       THEN /\ pc' = "failed"
            /\ error' = "ValueError"
            /\ UNCHANGED <<res, seedIdx>>
       ELSE /\ res' = Num(0)
            /\ seedIdx' = 0
            /\ pc' = "seed_loop"
            /\ error' = error
    /\ UNCHANGED <<args, config, EXP_PATH, logging_path, datasets, printed,
                   trace, files, loadCalls, samplerCalls, trainerCalls,
                   loaderCalls, runnerCalls, trainerReturns, tr>>

\* lines 91-120: one iteration of the seed loop up to the trainer call
FewShotIter ==
    /\ pc = "seed_loop"
    /\ seedIdx < Len(config.seed)
    /\ LET seed == config.seed[seedIdx + 1] IN
       IF ~Truthy(args.test)
       THEN \E v \in SampledValid(datasets.valid) :
              LET sampled == [train |-> "train-sample", valid |-> v] IN
              /\ samplerCalls' = Append(samplerCalls,
                     [train_dataset |-> datasets.train,
                      valid_dataset |-> datasets.valid, seed |-> seed])
              /\ trace' = trace \o <<"FewShotSampler", "trainer">>
              /\ Invoke(FewShotArgs(EXP_PATH, args, seed, sampled, datasets))
       ELSE /\ samplerCalls' = samplerCalls
            /\ trace' = Append(trace, "trainer")
            /\ Invoke(FewShotTestArgs(EXP_PATH, args, seed, datasets))
    /\ pc' = "few_shot_call"
    /\ UNCHANGED <<args, config, EXP_PATH, logging_path, datasets, res,
                   seedIdx, error, printed, files, loadCalls, loaderCalls,
                   runnerCalls, trainerReturns>>

\* lines 103/114 and 121: result = trainer(...); res += result
ReturnFewShot ==
    /\ pc = "few_shot_call"
    /\ tr.pc = "returned"
    /\ res' = NumAdd(res, tr.res)
    /\ seedIdx' = seedIdx + 1
    /\ tr' = NoFrame
    /\ pc' = "seed_loop"
    /\ UNCHANGED <<args, config, EXP_PATH, logging_path, datasets, error,
                   printed, trace, files, loadCalls, samplerCalls,
                   trainerCalls, loaderCalls, runnerCalls, trainerReturns>>

\* line 122: res /= len(seeds); the quotient is kept as numerator/denominator
FewShotAverage ==
    /\ pc = "seed_loop"
    /\ seedIdx = Len(config.seed)
    /\ IF Len(config.seed) = 0
       THEN /\ pc' = "failed"
            /\ error' = "ZeroDivisionError"
            /\ res' = res
       ELSE /\ res' = NumDiv(res, Len(config.seed))
            /\ pc' = "print"
            /\ error' = error
    /\ UNCHANGED <<args, config, EXP_PATH, logging_path, datasets, seedIdx,
                   printed, trace, files, loadCalls, samplerCalls,
                   trainerCalls, loaderCalls, runnerCalls, trainerReturns, tr>>

\* lines 123-132: the 'zero_shot' branch calls trainer
DispatchZeroShot ==
    /\ pc = "dispatch"
    /\ config.learning_setting = "zero_shot"
    /\ Invoke(ZeroShotArgs(EXP_PATH, datasets))
    /\ trace' = Append(trace, "trainer")
    /\ pc' = "zero_shot_call"
    /\ UNCHANGED <<args, config, EXP_PATH, logging_path, datasets, res,
                   seedIdx, error, printed, files, loadCalls, samplerCalls,
                   loaderCalls, runnerCalls, trainerReturns>>

\* line 124: res = trainer(...)
ReturnZeroShot ==
    /\ pc = "zero_shot_call"
    /\ tr.pc = "returned"
    /\ res' = tr.res
    /\ tr' = NoFrame
    /\ pc' = "print"
    /\ UNCHANGED <<args, config, EXP_PATH, logging_path, datasets, seedIdx,
                   error, printed, trace, files, loadCalls, samplerCalls,
                   trainerCalls, loaderCalls, runnerCalls, trainerReturns>>

\* lines 75, 86, 123: no branch is taken and there is no else branch
DispatchNone ==
    /\ pc = "dispatch"
    /\ config.learning_setting \notin {"full", "few_shot", "zero_shot"}
    /\ pc' = "print"
    /\ UNCHANGED <<args, config, EXP_PATH, logging_path, datasets, res,
                   seedIdx, error, printed, trace, files, loadCalls,
                   samplerCalls, trainerCalls, loaderCalls, runnerCalls, trainerReturns, tr>>

\* line 133: print("metric:", res); res is unbound when no branch assigned it
PrintMetric ==
    /\ pc = "print"
    /\ IF res = Unbound
       THEN /\ pc' = "failed"
            /\ error' = "UnboundLocalError"
            /\ printed' = printed
       ELSE /\ printed' = res
            /\ pc' = "done"
            /\ error' = error
    /\ UNCHANGED <<args, config, EXP_PATH, logging_path, datasets, res,
                   seedIdx, trace, files, loadCalls, samplerCalls,
                   trainerCalls, loaderCalls, runnerCalls, trainerReturns, tr>>

(* ----------------------------- trainer --------------------------------- *)
\* the arguments of the active trainer invocation
Call == trainerCalls[Len(trainerCalls)]

\* a task test without the final else branch
TaskSupportedAny(task) == TRUE

\* lines 143, 157, 160: the tasks trainer has a pipeline for
TaskSupported(task) == task \in {"classification", "generation"}

\* lines 143-159: the collaborators called while assembling the pipeline
AssembleCalls(cfg) ==
    IF cfg.task = "classification"
    THEN <<"load_verbalizer">>
         \o (IF cfg.auto_t THEN <<"load_plm", "load_template">>
                           ELSE <<"load_template">>)
         \o <<"PromptForClassification">>
    ELSE <<"load_template", "PromptForGeneration">>

\* lines 140-159: the local variables assigned while assembling the pipeline
AssembleLocals(cfg) ==
    {"plm_model", "plm_tokenizer", "plm_config"}
    \cup (IF cfg.task = "classification"
          THEN {"verbalizer", "template_generate_model",
                "template_generate_tokenizer", "template", "prompt_model"}
               \cup (IF cfg.auto_t THEN {"template_generate_config"} ELSE {})
          ELSE {"template", "prompt_model"})

\* lines 137-161
TrainerAssemble ==
    /\ tr.pc = "assemble"
    /\ IF TaskSupported(config.task)
       THEN /\ trace' = trace \o <<"set_seed", "load_plm">>
                              \o AssembleCalls(config)
            /\ tr' = [tr EXCEPT !.pc = "loaders",
                                !.locals = AssembleLocals(config)]
            /\ UNCHANGED <<pc, error>>
       ELSE /\ trace' = trace \o <<"set_seed", "load_plm">>
            /\ tr' = [tr EXCEPT !.pc = "raised"]
            /\ pc' = "failed"
            /\ error' = "NotImplementedError"
    /\ UNCHANGED <<args, config, EXP_PATH, logging_path, datasets, res,
                   seedIdx, printed, files, loadCalls, samplerCalls,
                   trainerCalls, loaderCalls, runnerCalls, trainerReturns>>

\* lines 164-169: the splits a data loader is built for, as
\* <<dataset argument, config section, local variable>>
LoaderPlan(call) ==
    (IF Truthy(call.train_dataset)
     THEN <<[dataset |-> call.train_dataset, split |-> "train",
             var |-> "train_dataloader"]>> ELSE <<>>)
    \o (IF Truthy(call.valid_dataset)
        THEN <<[dataset |-> call.valid_dataset, split |-> "dev",
                var |-> "valid_dataloader"]>> ELSE <<>>)
    \o (IF Truthy(call.test_dataset)
        THEN <<[dataset |-> call.test_dataset, split |-> "test",
                var |-> "test_dataloader"]>> ELSE <<>>)

\* lines 36-47: the PromptDataLoader build_dataloader constructs
build_dataloader(dataset, cfg, split) ==
    [invocation |-> Len(trainerCalls), dataset |-> dataset, split |-> split,
     predict_eos_token |-> (cfg.task = "generation")]

\* lines 164-169
TrainerBuildLoaders ==
    /\ tr.pc = "loaders"
    /\ LET plan == LoaderPlan(Call) IN
       /\ loaderCalls' = loaderCalls \o
              [i \in 1..Len(plan) |->
                  build_dataloader(plan[i].dataset, config, plan[i].split)]
       /\ trace' = trace \o [i \in 1..Len(plan) |-> "build_dataloader"]
       /\ tr' = [tr EXCEPT !.pc = "runner",
                    !.locals = @ \cup {plan[i].var : i \in 1..Len(plan)}]
    /\ UNCHANGED <<args, config, pc, EXP_PATH, logging_path, datasets, res,
                   seedIdx, error, printed, files, loadCalls, samplerCalls,
                   trainerCalls, runnerCalls, trainerReturns>>

\* lines 171-198: the runner class the pipeline is handed to
RunnerClass(cfg) ==
    IF cfg.task = "classification"
    THEN IF cfg.auto_t \/ cfg.auto_v THEN "LMBFFClassificationRunner"
                                     ELSE "ClassificationRunner"
    ELSE "GenerationRunner"

\* lines 173-197: the local variables the constructor call reads
RunnerReads(class) ==
    IF class = "LMBFFClassificationRunner"
    THEN {"plm_model", "plm_tokenizer", "template_generate_tokenizer",
          "template_generate_model", "template", "verbalizer"}
    ELSE {"prompt_model", "train_dataloader", "valid_dataloader",
          "test_dataloader"}

\* lines 171-198: reading a local that was never assigned raises
TrainerSelectRunner ==
    /\ tr.pc = "runner"
    /\ LET class == RunnerClass(config) IN
       IF RunnerReads(class) \subseteq tr.locals
       THEN /\ tr' = [tr EXCEPT !.pc = "execute", !.runner = class]
            /\ trace' = Append(trace, class)
            /\ UNCHANGED <<pc, error>>
       ELSE /\ tr' = [tr EXCEPT !.pc = "raised"]
            /\ trace' = trace
            /\ pc' = "failed"
            /\ error' = "UnboundLocalError"
    /\ UNCHANGED <<args, config, EXP_PATH, logging_path, datasets, res,
                   seedIdx, printed, files, loadCalls, samplerCalls,
                   trainerCalls, loaderCalls, runnerCalls, trainerReturns>>

\* the flag cascade with test examined before zero
RunnerMethodTestFirst(zero, test, resume) ==
    IF Truthy(test) THEN [method |-> "test", ckpt |-> "best"]
    ELSE IF zero THEN [method |-> "test", ckpt |-> NONE]
    ELSE IF Truthy(resume) THEN [method |-> "run", ckpt |-> "last"]
    ELSE [method |-> "run", ckpt |-> NONE]

\* lines 200-207: the runner method called and its ckpt argument
RunnerMethod(zero, test, resume) ==
    IF zero THEN [method |-> "test", ckpt |-> NONE]
    ELSE IF Truthy(test) THEN [method |-> "test", ckpt |-> "best"]
    ELSE IF Truthy(resume) THEN [method |-> "run", ckpt |-> "last"]
    ELSE [method |-> "run", ckpt |-> NONE]

\* lines 200-208: the runner returns some metric, which trainer returns
TrainerExecute ==
    /\ tr.pc = "execute"
    /\ \E m \in Metrics :
         LET rc == RunnerMethod(Call.zero, Call.test, Call.resume) IN
         /\ runnerCalls' = Append(runnerCalls,
                [invocation |-> Len(trainerCalls), runner |-> tr.runner,
                 method |-> rc.method, ckpt |-> rc.ckpt, result |-> Num(m)])
         /\ trace' = Append(trace, "runner." \o rc.method)
         /\ trainerReturns' = Append(trainerReturns, Num(m))
         /\ tr' = [tr EXCEPT !.pc = "returned", !.res = Num(m)]
    /\ UNCHANGED <<args, config, pc, EXP_PATH, logging_path, datasets, res,
                   seedIdx, error, printed, files, loadCalls, samplerCalls,
                   trainerCalls, loaderCalls>>

(* --------------------------- specification ----------------------------- *)
Next ==
    \/ CheckFlags
    \/ SetupExperiment
    \/ LoadDataset
    \/ DispatchFull
    \/ ReturnFull
    \/ DispatchFewShot
    \/ FewShotIter
    \/ ReturnFewShot
    \/ FewShotAverage
    \/ DispatchZeroShot
    \/ ReturnZeroShot
    \/ DispatchNone
    \/ PrintMetric
    \/ TrainerAssemble
    \/ TrainerBuildLoaders
    \/ TrainerSelectRunner
    \/ TrainerExecute

Spec == Init /\ [][Next]_vars

(* -------------------- trainer called on its own ------------------------ *)
\* line 135: a trainer invocation with any arguments its signature admits
TrainerInit ==
    /\ args = [resume |-> NONE, test |-> NONE]
    /\ config \in [learning_setting : {"full"},
                   task : Tasks,
                   auto_t : BOOLEAN,
                   auto_v : BOOLEAN,
                   few_shot_sampling : {NONE},
                   seed : {<<>>}]
    /\ pc = "trainer_call"
    /\ EXP_PATH = NONE
    /\ logging_path = "logs"
    /\ datasets = [train |-> NONE, valid |-> NONE, test |-> NONE]
    /\ res = Unbound
    /\ seedIdx = 0
    /\ error = NONE
    /\ printed = Unbound
    /\ trace = <<>>
    /\ files = {}
    /\ loadCalls = <<>>
    /\ samplerCalls = <<>>
    /\ \E call \in [EXP_PATH : {"logs/run"}, resume : ArgValues,
                    test : ArgValues, zero : BOOLEAN,
                    train_dataset : SplitValues("train"),
                    valid_dataset : SplitValues("valid"),
                    test_dataset : SplitValues("test")] :
          trainerCalls = <<call>>
    /\ loaderCalls = <<>>
    /\ runnerCalls = <<>>
    /\ trainerReturns = <<>>
    /\ tr = [pc |-> "assemble", locals |-> {}, runner |-> NONE,
             res |-> Unbound]

TrainerNext ==
    \/ TrainerAssemble
    \/ TrainerBuildLoaders
    \/ TrainerSelectRunner
    \/ TrainerExecute

TrainerSpec == TrainerInit /\ [][TrainerNext]_vars

(* ----------------------------- properties ------------------------------ *)
TypeOK ==
    /\ pc \in {"check_flags", "setup", "load", "dispatch", "full_call",
               "seed_loop", "few_shot_call", "zero_shot_call", "print",
               "done", "failed", "trainer_call"}
    /\ tr.pc \in {"idle", "assemble", "loaders", "runner", "execute",
                  "returned", "raised"}
    /\ seedIdx \in 0..Len(config.seed)

\* a flag given on the command line with a path as its value
Supplied(x) == x # NONE /\ x # ""

\* a flag or dataset that Python's `if x` takes as set
IsSet(x) == x # NONE /\ x # "" /\ x # "[]"

BothSupplied == Supplied(args.resume) /\ Supplied(args.test)

Terminated == pc \in {"done", "failed"}

\* main has got past the flag check and the experiment set-up (lines 61-69)
PastSetup == pc \notin {"check_flags", "setup"} /\ ~(pc = "failed" /\ error = "Exception")

\* main has got past the branch on config.learning_setting (lines 75-132)
PastDispatch == PastSetup /\ pc \notin {"load", "dispatch"}

\* the active trainer invocation is over: it returned or raised
TrainerOver == trainerCalls # <<>> /\ tr.pc \notin {"assemble", "loaders", "runner", "execute"}

Count(seq, x) == Cardinality({i \in 1..Len(seq) : seq[i] = x})

Index(seq, x) == CHOOSE i \in 1..Len(seq) : seq[i] = x

RECURSIVE SumResults(_)
SumResults(calls) ==
    IF calls = <<>> THEN <<0, 1>>
    ELSE LET r == calls[1].result
             t == SumResults(Tail(calls))
         IN <<r[1] * t[2] + t[1] * r[2], r[2] * t[2]>>

\* C1: when both --resume and --test are supplied, main raises before
\* load_dataset is called, whatever the learning setting and the task, and no
\* sampler, trainer or runner call happens.
C1_ConflictRaisesBeforeLoad ==
    BothSupplied =>
        /\ pc \in {"check_flags", "failed"}
        /\ pc = "failed" => error = "Exception"
        /\ trace = <<>>
        /\ loadCalls = <<>> /\ samplerCalls = <<>> /\ trainerCalls = <<>>
        /\ loaderCalls = <<>> /\ runnerCalls = <<>>

C1_Witness ==
    /\ BothSupplied
    /\ pc = "failed" /\ error = "Exception"
    /\ config.learning_setting = "few_shot" /\ config.task = "generation"

\* C2: in few_shot mode with a sampling strategy configured (a task the
\* trainer supports, all three dataset splits loaded), main invokes trainer
\* once per seed of the seed list, in list order and under the sub-path
\* seed-<seed>, and reports the sum of the per-seed results divided by the
\* number of seeds, with and without --test.
C2_OncePerSeedAndMean ==
    ( /\ config.learning_setting = "few_shot"
      /\ config.few_shot_sampling # NONE
      /\ config.task \in {"classification", "generation"}
      /\ datasets = [train |-> "train", valid |-> "valid", test |-> "test"]
      /\ ~BothSupplied
      /\ Terminated )
    =>
        /\ Len(trainerCalls) = Len(config.seed)
        /\ \A i \in 1..Len(trainerCalls) :
              trainerCalls[i].EXP_PATH
                  = EXP_PATH \o "/seed-" \o ToString(config.seed[i])
        /\ config.seed # <<>> =>
              /\ pc = "done"
              /\ printed[1] * (SumResults(runnerCalls)[2] * Len(config.seed))
                     = SumResults(runnerCalls)[1] * printed[2]

\* C3: in zero_shot mode, when load_dataset returned neither train nor valid
\* data but did return test data, the trainer invocation builds only the test
\* data loader, calls runner.test() once, never runner.run, and returns that
\* metric without raising.
C3_ZeroShotNeedsOnlyTestData ==
    ( /\ config.learning_setting = "zero_shot"
      /\ config.task \in {"classification", "generation"}
      /\ datasets.train = NONE /\ datasets.valid = NONE
      /\ datasets.test = "test"
      /\ TrainerOver )
    =>
        /\ error = NONE
        /\ Len(loaderCalls) = 1 /\ loaderCalls[1].split = "test"
        /\ Len(runnerCalls) = 1
        /\ runnerCalls[1].method = "test" /\ runnerCalls[1].ckpt = NONE
        /\ trainerReturns = <<runnerCalls[1].result>>

\* C4: when config.learning_setting is none of full, few_shot, zero_shot, main
\* ends with the dispatcher's own "not implemented" error; trainer is never
\* invoked and no metric is printed.
C4_UnsupportedSettingIsExplicitError ==
    ( /\ config.learning_setting \notin {"full", "few_shot", "zero_shot"}
      /\ ~BothSupplied
      /\ Terminated )
    =>
        /\ pc = "failed"
        /\ error = "NotImplementedError"
        /\ trainerCalls = <<>>
        /\ printed = Unbound

\* C5 as stated: when --test is supplied and --resume is not, every runner
\* call of the execution is test(ckpt='best') in every learning setting,
\* runner.run is never called and the few-shot sampler is never invoked.
C5_TestAlwaysUsesBestCheckpoint ==
    (Supplied(args.test) /\ ~Supplied(args.resume)) =>
        /\ samplerCalls = <<>>
        /\ \A i \in 1..Len(runnerCalls) :
              runnerCalls[i].method = "test" /\ runnerCalls[i].ckpt = "best"

\* C5 amended: when --test is supplied with a path and --resume is not, the
\* sampler is never invoked and every runner call is a test call, never run:
\* test(ckpt='best') in the full and few_shot settings, test() without a
\* checkpoint in the zero_shot setting.
C5_TestNeverTrains ==
    (Supplied(args.test) /\ ~Supplied(args.resume)) =>
        /\ samplerCalls = <<>>
        /\ \A i \in 1..Len(runnerCalls) :
              /\ runnerCalls[i].method = "test"
              /\ runnerCalls[i].ckpt =
                    (IF config.learning_setting = "zero_shot" THEN NONE
                                                              ELSE "best")

C5_Witness ==
    /\ Supplied(args.test) /\ ~Supplied(args.resume)
    /\ config.learning_setting = "few_shot"
    /\ pc = "done"
    /\ Len(runnerCalls) = 2
    /\ runnerCalls[2].ckpt = "best"

\* C6: when config.task is neither classification nor generation, trainer
\* raises NotImplementedError; build_dataloader is never called and no runner
\* is constructed or executed, whatever datasets and flags are passed.
C6_UnsupportedTaskBuildsNothing ==
    (config.task \notin {"classification", "generation"}) =>
        /\ loaderCalls = <<>>
        /\ runnerCalls = <<>>
        /\ trainerReturns = <<>>
        /\ tr.runner = NONE
        /\ Count(trace, "build_dataloader") = 0
        /\ tr.pc \in {"idle", "assemble", "raised"}
        /\ tr.pc = "raised" => pc = "failed" /\ error = "NotImplementedError"

C6_Witness ==
    /\ config.task = "tagging"
    /\ tr.pc = "raised" /\ error = "NotImplementedError"
    /\ trainerCalls[1].train_dataset = "train"
    /\ trainerCalls[1].test_dataset = "test"
    /\ trainerCalls[1].zero

\* C7: in few_shot mode with config.few_shot.few_shot_sampling unset, main
\* raises before the sampler is constructed or called and before any trainer
\* invocation, for every seed list and whatever --resume/--test are.
C7_MissingSamplingFailsBeforeSampler ==
    (config.learning_setting = "few_shot" /\ config.few_shot_sampling = NONE)
    =>
        /\ samplerCalls = <<>>
        /\ trainerCalls = <<>>
        /\ Count(trace, "FewShotSampler") = 0
        /\ pc \in {"check_flags", "setup", "load", "dispatch", "failed"}
        /\ pc = "failed" =>
              error = (IF BothSupplied THEN "Exception" ELSE "ValueError")

C7_Witness ==
    /\ config.learning_setting = "few_shot"
    /\ config.few_shot_sampling = NONE
    /\ Len(config.seed) = 2
    /\ Supplied(args.resume)
    /\ pc = "failed" /\ error = "ValueError"
    /\ loadCalls # <<>>

\* C8: in the full setting main invokes trainer exactly once, with the train,
\* valid and test datasets exactly as load_dataset returned them, the
\* experiment path itself (no seed sub-path) and the --resume/--test values;
\* the sampler is never invoked and the reported metric is that trainer
\* invocation's result.
C8_FullRunsTrainerOnceOnFullData ==
    (config.learning_setting = "full") =>
        /\ samplerCalls = <<>>
        /\ Len(trainerCalls) <= 1
        /\ PastDispatch =>
              /\ Len(trainerCalls) = 1
              /\ trainerCalls[1].train_dataset = datasets.train
              /\ trainerCalls[1].valid_dataset = datasets.valid
              /\ trainerCalls[1].test_dataset = datasets.test
              /\ trainerCalls[1].EXP_PATH = EXP_PATH
              /\ EXP_PATH = (IF Supplied(args.resume) THEN args.resume
                             ELSE IF Supplied(args.test) THEN args.test
                             ELSE "logs/exp")
              /\ trainerCalls[1].resume = args.resume
              /\ trainerCalls[1].test = args.test
              /\ ~trainerCalls[1].zero
        /\ pc = "done" => trainerReturns = <<printed>>
        /\ printed # Unbound => pc = "done"

C8_Witness ==
    /\ config.learning_setting = "full"
    /\ pc = "done"
    /\ Supplied(args.resume)
    /\ datasets = [train |-> "train", valid |-> "valid", test |-> "test"]
    /\ Len(trainerCalls) = 1
    /\ printed = Num(80)

\* C9: save_config_to_yaml is called exactly on a fresh run: once, after the
\* experiment directory is created, when neither --resume nor --test is
\* supplied; when one of them is supplied no directory is created, nothing is
\* saved, and the supplied path is both the experiment path and
\* config.logging.path.
C9_ConfigSavedOnlyOnFreshRun ==
    /\ (~Supplied(args.resume) /\ ~Supplied(args.test)) =>
          IF PastSetup
          THEN /\ Count(trace, "save_config_to_yaml") = 1
               /\ Count(trace, "config_experiment_dir") = 1
               /\ Index(trace, "config_experiment_dir")
                     < Index(trace, "save_config_to_yaml")
               /\ files = {EXP_PATH \o "/config.yaml"}
               /\ logging_path = EXP_PATH
          ELSE /\ Count(trace, "save_config_to_yaml") = 0
               /\ files = {}
    /\ (Supplied(args.resume) \/ Supplied(args.test)) =>
          /\ Count(trace, "save_config_to_yaml") = 0
          /\ Count(trace, "config_experiment_dir") = 0
          /\ files = {}
          /\ PastSetup =>
                /\ EXP_PATH = (IF Supplied(args.resume) THEN args.resume
                                                        ELSE args.test)
                /\ logging_path = EXP_PATH

C9_Witness ==
    /\ ~Supplied(args.resume) /\ ~Supplied(args.test)
    /\ pc = "done"
    /\ files = {"logs/exp/config.yaml"}

\* C10: every trainer invocation that reaches execution calls exactly one
\* runner method, once, chosen by the first flag set in the order zero, test,
\* resume, none: test(), test(ckpt='best'), run(ckpt='last'), run(); trainer
\* returns the value that call produced.
C10_RunnerMethodByPriority ==
    /\ Len(runnerCalls) = Len(trainerReturns)
    /\ Len(runnerCalls) <= Len(trainerCalls)
    /\ tr.pc = "returned" => Len(runnerCalls) = Len(trainerCalls)
    /\ tr.pc \in {"assemble", "loaders", "runner", "execute", "raised"} =>
          Len(runnerCalls) = Len(trainerCalls) - 1
    /\ \A i \in 1..Len(runnerCalls) :
          LET call == trainerCalls[i]
              rc   == runnerCalls[i]
          IN /\ rc.invocation = i
             /\ trainerReturns[i] = rc.result
             /\ IF call.zero
                THEN rc.method = "test" /\ rc.ckpt = NONE
                ELSE IF IsSet(call.test)
                THEN rc.method = "test" /\ rc.ckpt = "best"
                ELSE IF IsSet(call.resume)
                THEN rc.method = "run" /\ rc.ckpt = "last"
                ELSE rc.method = "run" /\ rc.ckpt = NONE

C10_Witness ==
    /\ tr.pc = "returned"
    /\ trainerCalls[1].zero
    /\ IsSet(trainerCalls[1].test)
    /\ IsSet(trainerCalls[1].resume)
    /\ runnerCalls = <<[invocation |-> 1, runner |-> "GenerationRunner",
                        method |-> "test", ckpt |-> NONE,
                        result |-> Num(70)]>>
====
